---- MODULE Spec2Model ----
(***************************************************************************)
(* Model of workers/processors/python/pre_analyze.py: the PDF topology     *)
(* pre-analyzer (sampler, page classifier, gap detection, segment          *)
(* assembler).                                                             *)
(*                                                                         *)
(* Conventions                                                             *)
(*  - coordinates are integers (points); a bbox is <<x0, top, x1, bottom>>.*)
(*  - a Python string is abstracted to its whitespace shape                *)
(*    [lead, body, trail]: `lead` leading whitespace characters, `body`    *)
(*    characters from the first to the last non-whitespace character       *)
(*    (inner whitespace included), `trail` trailing whitespace characters. *)
(*    An all-whitespace string of n characters is [lead |-> n, body |-> 0, *)
(*    trail |-> 0].  len(s) = lead+body+trail, len(s.strip()) = body.      *)
(*  - percentages rounded to 2 decimals are integers in hundredths of a    *)
(*    percent (2500 is 25.00).                                             *)
(*  - `mid = total_length / 2` is kept as twice its value, so that every   *)
(*    comparison with mid stays in the integers.                           *)
(*  - Python None for `documents` / cropbox is the empty tuple; a list     *)
(*    value v of `documents` is <<v>>.                                     *)
(***************************************************************************)
EXTENDS Integers, Sequences, FiniteSets, TLC

\* ------------------------------------------------------------------ bounds
MaxPages == 4
MaxRichPages == 1
MaxIntervals == 2
MaxTwoPages == 2

\* ------------------------------------------------------- program constants
GAP_TOLERANCE == 5
MIN_GAP_RATIO_INV == 100
TOLERANCE == 2
SAMPLE_PAGES == 3
MIN_IMAGE_SIDE == 20
DROP_TEXT_LEN == 20
GOOD_TEXT_LEN == 200
BEST_TEXT_LEN == 2000
LANG_TEXT_LEN == 50
LOW_COVER == 2500
FULL_COVER == 10000

\* ------------------------------------------------------------------ strings
Str(l, b, t) == [lead |-> l, body |-> b, trail |-> t]

EmptyStr == Str(0, 0, 0)

Newline == Str(1, 0, 0)

\* a + b on Python strings
Concat(a, b) ==
    IF a.body = 0 /\ b.body = 0 THEN Str(a.lead + b.lead, 0, 0)
    ELSE IF a.body = 0 THEN Str(a.lead + b.lead, b.body, b.trail)
    ELSE IF b.body = 0 THEN Str(a.lead, a.body, a.trail + b.lead)
    ELSE Str(a.lead, a.body + a.trail + b.lead + b.body, b.trail)

\* len(s.strip())
StripLen(s) == s.body

\* ---------------------------------------------------------------- numerics
Max(a, b) == IF a >= b THEN a ELSE b

Min(a, b) == IF a <= b THEN a ELSE b

\* ------------------------------------------- natural numbers of any size
\* a natural number as its digits in base LIMB, least significant first, top
\* digit nonzero
LIMB_BITS == 13

LIMB == 8192

Pow2(t) == <<1, 2, 4, 8, 16, 32, 64, 128, 256, 512, 1024, 2048, 4096, 8192>>[t + 1]

RECURSIVE Limbs(_)
Limbs(n) == IF n = 0 THEN <<>> ELSE <<n % LIMB>> \o Limbs(n \div LIMB)

RECURSIVE BVal(_)
BVal(x) == IF x = <<>> THEN 0 ELSE x[1] + LIMB * BVal(Tail(x))

RECURSIVE BTrim(_)
BTrim(x) ==
    IF x = <<>> \/ x[Len(x)] # 0 THEN x ELSE BTrim(SubSeq(x, 1, Len(x) - 1))

\* number of bits of x
BitLen(x) ==
    IF x = <<>> THEN 0
    ELSE LIMB_BITS * (Len(x) - 1)
         + (CHOOSE j \in 1..LIMB_BITS : Pow2(j - 1) <= x[Len(x)] /\ x[Len(x)] < Pow2(j))

RECURSIVE BAddC(_, _, _)
BAddC(x, y, c) ==
    IF x = <<>> /\ y = <<>> THEN (IF c = 1 THEN <<1>> ELSE <<>>)
    ELSE LET a == IF x = <<>> THEN 0 ELSE x[1]
             b == IF y = <<>> THEN 0 ELSE y[1]
             t == a + b + c
         IN  <<t % LIMB>> \o BAddC(IF x = <<>> THEN <<>> ELSE Tail(x),
                                   IF y = <<>> THEN <<>> ELSE Tail(y), t \div LIMB)

BAdd(x, y) == BAddC(x, y, 0)

RECURSIVE BSubC(_, _, _)
BSubC(x, y, c) ==
    IF x = <<>> THEN <<>>
    ELSE LET b == IF y = <<>> THEN 0 ELSE y[1]
             t == x[1] - b - c
         IN  <<t % LIMB>> \o BSubC(Tail(x), IF y = <<>> THEN <<>> ELSE Tail(y),
                                   IF t < 0 THEN 1 ELSE 0)

\* x - y for x >= y
BSub(x, y) == BTrim(BSubC(x, y, 0))

RECURSIVE BCmpAt(_, _, _)
BCmpAt(x, y, k) ==
    IF k = 0 THEN 0
    ELSE IF x[k] > y[k] THEN 1
    ELSE IF x[k] < y[k] THEN -1
    ELSE BCmpAt(x, y, k - 1)

\* -1, 0 or 1 as x < y, x = y or x > y
BCmp(x, y) ==
    IF Len(x) > Len(y) THEN 1
    ELSE IF Len(x) < Len(y) THEN -1
    ELSE BCmpAt(x, y, Len(x))

RECURSIVE BMulC(_, _, _)
BMulC(x, k, c) ==
    IF x = <<>> THEN Limbs(c)
    ELSE <<(x[1] * k + c) % LIMB>> \o BMulC(Tail(x), k, (x[1] * k + c) \div LIMB)

\* x * k for a natural k <= 2^17
BMul(x, k) == BTrim(BMulC(x, k, 0))

RECURSIVE BQuotAt(_, _, _, _)
\* long division of digits k..1 of x by d, r the remainder carried in
BQuotAt(x, d, k, r) ==
    IF k = 0 THEN <<>>
    ELSE BQuotAt(x, d, k - 1, (r * LIMB + x[k]) % d) \o <<(r * LIMB + x[k]) \div d>>

RECURSIVE BRemAt(_, _, _, _)
BRemAt(x, d, k, r) ==
    IF k = 0 THEN r ELSE BRemAt(x, d, k - 1, (r * LIMB + x[k]) % d)

\* quotient and remainder of x by a natural 0 < d < 2^18
BQuot(x, d) == BTrim(BQuotAt(x, d, Len(x), 0))

BRem(x, d) == BRemAt(x, d, Len(x), 0)

\* x * 2^k
BShl(x, k) ==
    IF x = <<>> THEN <<>>
    ELSE [j \in 1..(k \div LIMB_BITS) |-> 0] \o BMul(x, Pow2(k % LIMB_BITS))

\* x \div 2^k
BShr(x, k) ==
    IF Len(x) <= k \div LIMB_BITS THEN <<>>
    ELSE BQuot(SubSeq(x, k \div LIMB_BITS + 1, Len(x)), Pow2(k % LIMB_BITS))

\* x is not a multiple of 2^k
BLowBits(x, k) ==
    \/ \E j \in 1..Min(k \div LIMB_BITS, Len(x)) : x[j] # 0
    \/ /\ Len(x) > k \div LIMB_BITS
       /\ x[k \div LIMB_BITS + 1] % Pow2(k % LIMB_BITS) # 0

BOdd(x) == x # <<>> /\ x[1] % 2 = 1

\* ---------------------------------------------- binary64 floating point
\* a Python float is s * m * 2^e with s in {1, -1} and m of at most
\* MANT_BITS bits; the values that occur are far from overflow and underflow
MANT_BITS == 53

FZero == [s |-> 1, m |-> <<>>, e |-> 0]

\* the float nearest to s * n * 2^e (plus a nonzero tail below the last bit
\* of n when sticky), ties to even
FRound(s, n, e, sticky) ==
    IF n = <<>> THEN FZero
    ELSE IF BitLen(n) <= MANT_BITS THEN [s |-> s, m |-> n, e |-> e]
    ELSE LET k == BitLen(n) - MANT_BITS
             kept == BShr(n, k)
             guard == BOdd(BShr(n, k - 1))
             rest == sticky \/ BLowBits(n, k - 1)
             up == guard /\ (rest \/ BOdd(kept))
             m == IF up THEN BAdd(kept, <<1>>) ELSE kept
         IN  IF BitLen(m) > MANT_BITS
             THEN [s |-> s, m |-> BShr(m, 1), e |-> e + k + 1]
             ELSE [s |-> s, m |-> m, e |-> e + k]

\* s * n * 2^e / d correctly rounded, for a natural n (as digits) and
\* 0 < d < 2^18: n is shifted far enough for the quotient to hold more than
\* MANT_BITS bits
FQuot(s, n, e, d) ==
    LET shift == Max(0, MANT_BITS + 2 + BitLen(Limbs(d)) - BitLen(n))
        x == BShl(n, shift)
    IN  FRound(s, BQuot(x, d), e - shift, BRem(x, d) # 0)

\* float(a) / float(b) for integers a and 0 < b < 2^18
FDivInt(a, b) == FQuot(IF a < 0 THEN -1 ELSE 1, Limbs(IF a < 0 THEN -a ELSE a), 0, b)

\* x / n for a float x and an integer 0 < n < 2^18
FDiv(x, n) == FQuot(x.s, x.m, x.e, n)

\* x * k for a float x and a small natural k
FMul(x, k) == FRound(x.s, BMul(x.m, k), x.e, FALSE)

\* x + y
FAdd(x, y) ==
    IF x.m = <<>> THEN y
    ELSE IF y.m = <<>> THEN x
    ELSE LET e == Min(x.e, y.e)
             xm == BShl(x.m, x.e - e)
             ym == BShl(y.m, y.e - e)
         IN  IF x.s = y.s THEN FRound(x.s, BAdd(xm, ym), e, FALSE)
             ELSE IF BCmp(xm, ym) >= 0 THEN FRound(x.s, BSub(xm, ym), e, FALSE)
             ELSE FRound(y.s, BSub(ym, xm), e, FALSE)

\* round(x, 2) in hundredths: the integer nearest to the exact value of
\* x * 100, ties to even
Round2(x) ==
    LET n == BMul(x.m, 100)
        k == -x.e
        q == IF k <= 0 THEN BVal(BShl(n, -k)) ELSE BVal(BShr(n, k))
        guard == k > 0 /\ BOdd(BShr(n, k - 1))
        rest == k > 1 /\ BLowBits(n, k - 1)
        up == guard /\ (rest \/ q % 2 = 1)
    IN  x.s * (IF up THEN q + 1 ELSE q)

\* round(x, 2) in hundredths for a float x computed from the rational n / d
\* (in hundredths, d > 0): off a tie of n / d the float's error (below 1e-13)
\* cannot move x across a rounding boundary (at least 1 / (200 * d) away), so
\* the rational decides; on a tie the float's own value does
RoundHundredths(n, d, x) ==
    LET q == n \div d
        r == n - q * d
    IN  IF 2 * r < d THEN q
        ELSE IF 2 * r > d THEN q + 1
        ELSE Round2(x)

RECURSIVE SumSeq(_)
SumSeq(s) == IF s = <<>> THEN 0 ELSE Head(s) + SumSeq(Tail(s))

\* ----------------------------------------------------------------- geometry
NoBox == <<>>

get_effective_bbox(page) ==
    IF page.cropbox # NoBox /\ page.cropbox # page.mediabox
    THEN page.cropbox
    ELSE page.mediabox

is_within_bounds(obj_bbox, page_bbox) ==
    /\ obj_bbox[3] > page_bbox[1] + TOLERANCE
    /\ obj_bbox[1] < page_bbox[3] - TOLERANCE
    /\ obj_bbox[4] > page_bbox[2] + TOLERANCE
    /\ obj_bbox[2] < page_bbox[4] - TOLERANCE

\* the intersection test of the sampler's character filter
CharOverlapsImage(char_bbox, img_bbox) ==
    /\ char_bbox[1] < img_bbox[3]
    /\ char_bbox[3] > img_bbox[1]
    /\ char_bbox[2] < img_bbox[4]
    /\ char_bbox[4] > img_bbox[2]

\* ------------------------------------------------------------ gap detection
\* sorted(intervals, key=lambda x: x[0]): stable insertion by start
RECURSIVE InsertByStart(_, _)
InsertByStart(iv, sorted) ==
    IF sorted = <<>> THEN <<iv>>
    ELSE IF iv[1] < Head(sorted)[1] THEN <<iv>> \o sorted
    ELSE <<Head(sorted)>> \o InsertByStart(iv, Tail(sorted))

RECURSIVE SortByStart(_)
SortByStart(intervals) ==
    IF intervals = <<>> THEN <<>>
    ELSE LET n == Len(intervals)
         IN  InsertByStart(intervals[n], SortByStart(SubSeq(intervals, 1, n - 1)))

\* 2 * mid, where mid = total_length / 2
TwiceMidNoHalving(total_length) == 2 * total_length

TwiceMid(total_length) == total_length

\* start < mid and end > mid
CoversMid(iv, total_length) ==
    2 * iv[1] < TwiceMid(total_length) /\ 2 * iv[2] > TwiceMid(total_length)

\* the merge loop: rest = remaining sorted intervals, curr = (curr_start, curr_end)
RECURSIVE MergeLoop(_, _, _)
MergeLoop(rest, curr, merged) ==
    IF rest = <<>> THEN Append(merged, curr)
    ELSE LET nxt == Head(rest)
         IN  IF nxt[1] <= curr[2] + GAP_TOLERANCE
             THEN MergeLoop(Tail(rest), <<curr[1], Max(curr[2], nxt[2])>>, merged)
             ELSE MergeLoop(Tail(rest), nxt, Append(merged, curr))

MergeIntervals(sorted) == MergeLoop(Tail(sorted), Head(sorted), <<>>)

\* step 4 without the minimum gap
GapAroundMidAnyGap(merged, total_length) ==
    \E k \in 1..(Len(merged) - 1) :
        /\ 2 * merged[k][2] <= TwiceMid(total_length)
        /\ 2 * merged[k + 1][1] >= TwiceMid(total_length)

\* step 4: intervals on both sides and a meaningful gap around mid
GapAroundMid(merged, total_length) ==
    LET has_before == \E k \in 1..Len(merged) : 2 * merged[k][2] <= TwiceMid(total_length)
        has_after  == \E k \in 1..Len(merged) : 2 * merged[k][1] >= TwiceMid(total_length)
    IN  /\ has_before
        /\ has_after
        /\ \E k \in 1..(Len(merged) - 1) :
              /\ MIN_GAP_RATIO_INV * (merged[k + 1][1] - merged[k][2]) >= total_length
              /\ 2 * merged[k][2] <= TwiceMid(total_length)
              /\ 2 * merged[k + 1][1] >= TwiceMid(total_length)

get_gap(intervals, total_length) ==
    IF intervals = <<>> THEN FALSE
    ELSE LET sorted == SortByStart(intervals)
         IN  IF \E k \in 1..Len(sorted) : CoversMid(sorted[k], total_length)
             THEN FALSE
             ELSE LET merged == MergeIntervals(sorted)
                  IN  IF \E k \in 1..Len(merged) : CoversMid(merged[k], total_length)
                      THEN FALSE
                      ELSE GapAroundMid(merged, total_length)

\* ------------------------------------------------------------------- sampler
RECURSIVE FilterChars(_, _)
\* lines 65-82: concatenate the text of the characters that overlap no image
FilterChars(chars, images) ==
    IF chars = <<>> THEN EmptyStr
    ELSE LET char == Head(chars)
             is_overlapping ==
                 \E k \in 1..Len(images) : CharOverlapsImage(char.bbox, images[k])
         IN  IF is_overlapping
             THEN FilterChars(Tail(chars), images)
             ELSE Concat(char.text, FilterChars(Tail(chars), images))

\* lines 56-85: filtered_text of one sampled page
FilteredText(page) ==
    IF page.images # <<>>
    THEN FilterChars(page.chars, page.images)
    ELSE page.text

\* line 87: all_text += filtered_text + "\n"
AppendSample(all_text, page) == Concat(all_text, Concat(FilteredText(page), Newline))

\* lines 95-106, as the pair <<textQuality, hasTextLayer>>
TextQualityInclusive(text_length) ==
    IF text_length >= BEST_TEXT_LEN THEN <<"best", TRUE>>
    ELSE IF text_length >= GOOD_TEXT_LEN THEN <<"good", TRUE>>
    ELSE IF text_length < DROP_TEXT_LEN THEN <<"poor", FALSE>>
    ELSE <<"none", FALSE>>

TextQuality(text_length) ==
    IF text_length > BEST_TEXT_LEN THEN <<"best", TRUE>>
    ELSE IF text_length > GOOD_TEXT_LEN THEN <<"good", TRUE>>
    ELSE IF text_length < DROP_TEXT_LEN THEN <<"poor", FALSE>>
    ELSE <<"none", FALSE>>

\* lines 109-114 with the threshold included
DetectLanguageInclusive(language, text_length, detector) ==
    IF text_length >= LANG_TEXT_LEN /\ detector # "None"
    THEN (IF detector = "raises" THEN "unknown" ELSE detector)
    ELSE language

\* lines 109-114: detector is "None" (import failed), "raises", or a language code
DetectLanguage(language, text_length, detector) ==
    IF text_length > LANG_TEXT_LEN /\ detector # "None"
    THEN (IF detector = "raises" THEN "unknown" ELSE detector)
    ELSE language

\* line 111: detect is called and raises
DetectRaises(text_length, detector) == text_length > LANG_TEXT_LEN /\ detector = "raises"

\* ----------------------------------------------------------- page classifier
\* line 185
PageArea(page) ==
    LET mb == page.mediabox
    IN  Max((mb[3] - mb[1]) * (mb[4] - mb[2]), 1)

\* lines 199-204: images that survive the crop-zone filter
WithinImages(page) ==
    SelectSeq(page.images, LAMBDA img : is_within_bounds(img, get_effective_bbox(page)))

\* lines 206-209
TotalImgArea(page) ==
    LET within == WithinImages(page)
    IN  SumSeq([k \in 1..Len(within) |->
                   (within[k][3] - within[k][1]) * (within[k][4] - within[k][2])])

\* lines 211-214: images kept for the interval analysis
RelevantImages(page) ==
    SelectSeq(WithinImages(page),
              LAMBDA img : ~(img[3] - img[1] < MIN_IMAGE_SIDE \/ img[4] - img[2] < MIN_IMAGE_SIDE))

YIntervals(page) ==
    LET rel == RelevantImages(page)
    IN  [k \in 1..Len(rel) |-> <<rel[k][2], rel[k][4]>>]

XIntervals(page) ==
    LET rel == RelevantImages(page)
    IN  [k \in 1..Len(rel) |-> <<rel[k][1], rel[k][3]>>]

\* line 216: round(min(100.0, (total_img_area / page_area) * 100), 2), in
\* hundredths of a percent
ImageCoverPerc(page) ==
    IF TotalImgArea(page) >= PageArea(page) THEN FULL_COVER
    ELSE RoundHundredths(TotalImgArea(page) * FULL_COVER, PageArea(page),
                         FMul(FDivInt(TotalImgArea(page), PageArea(page)), 100))

\* line 181
PLen(page) == StripLen(page.text)

\* line 219 without the coverage test
IsDroppedTextOnly(page) == PLen(page) < DROP_TEXT_LEN

\* line 219
IsDropped(page) == PLen(page) < DROP_TEXT_LEN /\ ImageCoverPerc(page) < LOW_COVER

\* line 223 with the thresholds included
IsDocumentPageInclusive(page) ==
    PLen(page) >= BEST_TEXT_LEN \/ (PLen(page) >= GOOD_TEXT_LEN /\ ImageCoverPerc(page) < LOW_COVER)

\* line 223
IsDocumentPage(page) ==
    PLen(page) > BEST_TEXT_LEN \/ (PLen(page) > GOOD_TEXT_LEN /\ ImageCoverPerc(page) < LOW_COVER)

Segment(pages, type, image_cover) ==
    [pages |-> pages, type |-> type, image_cover |-> image_cover]

\* lines 240-252: the segments a non-document page emits for itself
PageSegmentsOneHalf(page, page_num) ==
    LET cover == ImageCoverPerc(page)
        eff == get_effective_bbox(page)
    IN  IF Len(RelevantImages(page)) < 2
        THEN <<Segment(<<page_num>>, "full_page", cover)>>
        ELSE IF get_gap(YIntervals(page), eff[4] - eff[2])
        THEN <<Segment(<<page_num>>, "top_half", cover)>>
        ELSE IF get_gap(XIntervals(page), eff[3] - eff[1])
        THEN <<Segment(<<page_num>>, "left_half", cover)>>
        ELSE <<Segment(<<page_num>>, "full_page", cover)>>

\* lines 240-252 with the horizontal projection tested first
PageSegmentsHorizontalFirst(page, page_num) ==
    LET cover == ImageCoverPerc(page)
        eff == get_effective_bbox(page)
    IN  IF Len(RelevantImages(page)) < 2
        THEN <<Segment(<<page_num>>, "full_page", cover)>>
        ELSE IF get_gap(XIntervals(page), eff[3] - eff[1])
        THEN <<Segment(<<page_num>>, "left_half", cover),
               Segment(<<page_num>>, "right_half", cover)>>
        ELSE IF get_gap(YIntervals(page), eff[4] - eff[2])
        THEN <<Segment(<<page_num>>, "top_half", cover),
               Segment(<<page_num>>, "bottom_half", cover)>>
        ELSE <<Segment(<<page_num>>, "full_page", cover)>>

PageSegments(page, page_num) ==
    LET cover == ImageCoverPerc(page)
        eff == get_effective_bbox(page)
    IN  IF Len(RelevantImages(page)) < 2
        THEN <<Segment(<<page_num>>, "full_page", cover)>>
        ELSE IF get_gap(YIntervals(page), eff[4] - eff[2])
        THEN <<Segment(<<page_num>>, "top_half", cover),
               Segment(<<page_num>>, "bottom_half", cover)>>
        ELSE IF get_gap(XIntervals(page), eff[3] - eff[1])
        THEN <<Segment(<<page_num>>, "left_half", cover),
               Segment(<<page_num>>, "right_half", cover)>>
        ELSE <<Segment(<<page_num>>, "full_page", cover)>>

\* ---------------------------------------------------------- segment assembler
\* the float a cover of c hundredths is held as (the value round(x, 2) returns)
CoverFloat(c) == FDivInt(c, 100)

RECURSIVE SumFloats(_, _)
\* sum(covers): the floats are added left to right, starting from 0
SumFloats(covers, acc) ==
    IF covers = <<>> THEN acc
    ELSE SumFloats(Tail(covers), FAdd(acc, CoverFloat(Head(covers))))

\* lines 230 and 256: round(sum(covers) / len(covers), 2), in hundredths
AvgCover(covers) ==
    RoundHundredths(SumSeq(covers), Len(covers),
                    FDiv(SumFloats(covers, FZero), Len(covers)))

\* the flush with the last page's coverage in place of the average
FlushRunLastCover(run_pages, run_covers) ==
    IF run_pages # <<>>
    THEN <<Segment(run_pages, "document", run_covers[Len(run_covers)])>>
    ELSE <<>>

\* lines 229-237 and 255-261: the segment a pending run is flushed into, if any
FlushRun(run_pages, run_covers) ==
    IF run_pages # <<>>
    THEN <<Segment(run_pages, "document", AvgCover(run_covers))>>
    ELSE <<>>

\* the page loop without the flush at lines 229-237: the run stays pending
PageStepKeepRun(st, page, page_num) ==
    IF IsDropped(page) THEN st
    ELSE IF IsDocumentPage(page)
    THEN [st EXCEPT !.pages = Append(@, page_num),
                    !.covers = Append(@, ImageCoverPerc(page))]
    ELSE [st EXCEPT !.documents = @ \o PageSegments(page, page_num)]

\* lines 218-252: one iteration of the page loop on the assembler state
\* st = [documents, pages (pending run), covers (pending run)]
PageStep(st, page, page_num) ==
    IF IsDropped(page) THEN st
    ELSE IF IsDocumentPage(page)
    THEN [st EXCEPT !.pages = Append(@, page_num),
                    !.covers = Append(@, ImageCoverPerc(page))]
    ELSE [documents |-> st.documents \o FlushRun(st.pages, st.covers)
                                     \o PageSegments(page, page_num),
          pages |-> <<>>,
          covers |-> <<>>]

\* ------------------------------------------------------------------- result
None == <<>>

Some(v) == <<v>>

\* lines 35-43
InitialResultEmptyList ==
    [isMultiDocument |-> FALSE, documentCount |-> 1, pageCount |-> 0,
     hasTextLayer |-> FALSE, textQuality |-> "none", language |-> "unknown",
     documents |-> Some(<<>>)]

InitialResult ==
    [isMultiDocument |-> FALSE, documentCount |-> 1, pageCount |-> 0,
     hasTextLayer |-> FALSE, textQuality |-> "none", language |-> "unknown",
     documents |-> None]

\* lines 268-274
DecisionAnySegment(result, documents) ==
    IF Len(documents) >= 1
    THEN [result EXCEPT !.isMultiDocument = TRUE,
                        !.documentCount = Len(documents),
                        !.documents = Some(documents)]
    ELSE [result EXCEPT !.isMultiDocument = FALSE,
                        !.documents = Some(documents)]

Decision(result, documents) ==
    IF Len(documents) > 1
    THEN [result EXCEPT !.isMultiDocument = TRUE,
                        !.documentCount = Len(documents),
                        !.documents = Some(documents)]
    ELSE [result EXCEPT !.isMultiDocument = FALSE,
                        !.documents = Some(documents)]

\* an exception: cls is "Exception" for an instance of any subclass of
\* Exception and "BaseException" for the others (KeyboardInterrupt,
\* SystemExit, GeneratorExit, ...); msg is str(e)
Exc(cls, msg) == [cls |-> cls, msg |-> msg]

\* a handler that catches only a failure to open the file
CaughtOnlyOpen(e) == e.cls = "Exception" /\ e.msg = "open"

\* lines 112 and 276: `except Exception` catches instances of Exception only
Caught(e) == e.cls = "Exception"

\* line 278: result["error"] = str(e)
WithError(result, e) == result @@ ("error" :> e.msg)

HasError(result) == "error" \in DOMAIN result

\* ------------------------------------------------------------------- inputs
Page(mediabox, cropbox, images, text, chars, raises) ==
    [mediabox |-> mediabox, cropbox |-> cropbox, images |-> images,
     text |-> text, chars |-> chars, raises |-> raises]

\* page boxes are kept small enough for area * 10000 to stay below 2^31
PageBox == <<0, 0, 400, 500>>

\* a text page of n stripped characters without images
TextPage(lead, n, trail) == Page(PageBox, PageBox, <<>>, Str(lead, n, trail), <<>>, "none")

PDoc == TextPage(0, 2500, 1)

PDropped == TextPage(0, 0, 0)

PFull == TextPage(2, 100, 0)

\* two images stacked with a gap around the horizontal centreline
PTopBottom ==
    Page(PageBox, PageBox, <<<<50, 50, 350, 200>>, <<50, 300, 350, 450>>>>, Str(0, 10, 0),
         <<[bbox |-> <<100, 230, 110, 242>>, text |-> Str(0, 1, 0)],
           [bbox |-> <<100, 100, 110, 112>>, text |-> Str(0, 1, 0)]>>, "none")

\* two images side by side with a gap around the vertical centreline
PLeftRight ==
    Page(PageBox, PageBox, <<<<20, 100, 180, 400>>, <<220, 100, 380, 400>>>>, Str(0, 10, 0),
         <<>>, "none")

\* a text page whose mediabox cannot be read
PBadBox == Page(PageBox, PageBox, <<>>, Str(0, 2500, 0), <<>>, "mediabox")

CorePages == {PDoc, PDropped, PFull, PTopBottom, PLeftRight, PBadBox}

\* one small image, text beside it
SmallImagePage(n, raises) ==
    Page(PageBox, PageBox, <<<<10, 10, 110, 110>>>>, Str(0, n, 0),
         <<[bbox |-> <<200, 200, 300, 212>>, text |-> Str(0, n, 1)],
           [bbox |-> <<50, 50, 60, 62>>, text |-> Str(0, 5, 0)]>>, raises)

\* one image over the upper half of the page
HalfImagePage(n) ==
    Page(PageBox, PageBox, <<<<0, 0, 400, 250>>>>, Str(0, n, 0),
         <<[bbox |-> <<200, 300, 300, 312>>, text |-> Str(1, n, 0)]>>, "none")

\* a text page whose chars cannot be read
PCharsFail == Page(PageBox, PageBox, <<>>, Str(0, 300, 0), <<>>, "chars")

RichPages ==
    CorePages
    \cup { TextPage(l, n, 1) : l \in {0, 1}, n \in {19, 20, 50, 51, 200, 201, 2000, 2001} }
    \cup { SmallImagePage(10, "none"), SmallImagePage(300, "none"),
           SmallImagePage(300, "images"), HalfImagePage(10), HalfImagePage(300),
           Page(PageBox, PageBox, <<>>, Str(0, 300, 0), <<>>, "extract_text"),
           PCharsFail, SmallImagePage(300, "chars") }

\* one image band of height h across the top of the page (cover = h / 5 percent)
BandImagePage(n, h) ==
    Page(PageBox, PageBox, <<<<0, 0, 400, h>>>>, Str(0, n, 0), <<>>, "none")

\* two images on a diagonal: a gap around both centrelines
PDiagonal ==
    Page(PageBox, PageBox, <<<<20, 50, 180, 200>>, <<220, 300, 380, 450>>>>, Str(0, 100, 0),
         <<>>, "none")

\* two large images that both cross both centrelines
PCentred ==
    Page(PageBox, PageBox, <<<<50, 100, 350, 400>>, <<60, 110, 340, 390>>>>, Str(0, 10, 0),
         <<>>, "none")

\* a large image above the centreline and a 10 x 10 image below it
POneRelevant ==
    Page(PageBox, PageBox, <<<<50, 50, 350, 200>>, <<50, 300, 60, 310>>>>, Str(0, 100, 0),
         <<>>, "none")

\* an image box with x1 < x0 that still passes the within-bounds test
PInverted ==
    Page(PageBox, PageBox, <<<<300, 0, 100, 400>>>>, Str(0, 100, 0), <<>>, "none")

\* an image larger than the page
POversized ==
    Page(PageBox, PageBox, <<<<-50, -50, 450, 550>>>>, Str(0, 100, 0), <<>>, "none")

\* crop box with origin (0, 100): its vertical centre is y = 300
CropBox == <<0, 100, 400, 500>>

\* two images with a gap around y = 200, the lower one crossing y = 300
PCropOffCentre ==
    Page(PageBox, CropBox, <<<<50, 50, 350, 190>>, <<50, 210, 350, 400>>>>, Str(0, 10, 0),
         <<>>, "none")

\* two images with a gap around y = 300, the centre of the crop box
PCropCentred ==
    Page(PageBox, CropBox, <<<<50, 110, 350, 290>>, <<50, 310, 350, 490>>>>, Str(0, 10, 0),
         <<>>, "none")

PDoc3000 == TextPage(0, 3000, 0)

\* one image w wide and 1 high: cover w / 2000 percent, half-way between two
\* hundredths for w = 10, 30, 50
TinyImagePage(n, w) ==
    Page(PageBox, PageBox, <<<<3, 3, 3 + w, 4>>>>, Str(0, n, 0), <<>>, "none")

\* a 19-wide image beside a large one: cover 23.925 percent
PSide19 ==
    Page(PageBox, PageBox, <<<<50, 50, 69, 200>>, <<50, 300, 350, 450>>>>, Str(0, 100, 0),
         <<>>, "none")

ShapePages ==
    { BandImagePage(10, h) : h \in {50, 125, 150} }
    \cup { HalfImagePage(2000), HalfImagePage(2001), SmallImagePage(19, "none"),
           PDiagonal, PCentred, POneRelevant, PInverted, POversized,
           PCropOffCentre, PCropCentred, PSide19 }
    \cup { TinyImagePage(100, w) : w \in {10, 30, 50} }

Detectors == {"None", "raises", "en"}

\* a document whose backend and detector, where they fail, raise an Exception
Doc(openable, pages, detector) ==
    [openable |-> openable, pages |-> pages, detector |-> detector, exc |-> "Exception"]

\* the same document when what its reads raise is an interrupt or exit
\* request, a class outside the Exception hierarchy
Uncaught(d) == [d EXCEPT !.exc = "BaseException"]

SeqsUpTo(S, n) == UNION { [1..k -> S] : k \in 0..n }

\* a file the backend cannot open
Unopenable == Doc(FALSE, <<>>, "en")

LongDocs == { Doc(TRUE, ps, "en") : ps \in SeqsUpTo(CorePages, MaxPages) }

RichDocs == { Doc(TRUE, ps, d) : ps \in SeqsUpTo(RichPages, MaxRichPages), d \in Detectors }

\* single pages of particular shapes, and the documents the spec names
ExampleDocs ==
    { Doc(TRUE, <<p>>, "en") : p \in ShapePages }
    \cup { Doc(TRUE, <<PDoc3000, PDoc3000, PLeftRight, PLeftRight>>, "en"),
           Doc(TRUE, <<SmallImagePage(300, "none"), PDoc>>, "en"),
           Doc(TRUE, <<SmallImagePage(300, "none"), SmallImagePage(300, "none"), PDoc3000>>, "en"),
           Doc(TRUE, <<PDoc, PInverted, PCropOffCentre>>, "raises"),
           Doc(TRUE, <<TinyImagePage(2500, 20), PDoc>>, "en"),
           Doc(TRUE, <<TinyImagePage(2500, 20), TinyImagePage(2500, 40)>>, "en"),
           Doc(TRUE, <<TinyImagePage(2500, 20), TinyImagePage(2500, 40), PLeftRight>>, "en"),
           Doc(TRUE, <<PFull, PFull, PFull, PCharsFail>>, "en") }

\* documents whose reads raise an interrupt or exit request
UncaughtDocs ==
    { Uncaught(d) : d \in { Unopenable,
                            Doc(TRUE, <<PDoc, PBadBox>>, "en"),
                            Doc(TRUE, <<SmallImagePage(300, "images")>>, "en"),
                            Doc(TRUE, <<PCharsFail>>, "en"),
                            Doc(TRUE, <<PDoc>>, "raises"),
                            Doc(TRUE, <<PDoc, PTopBottom>>, "en") } }

Docs == {Unopenable} \cup LongDocs \cup RichDocs \cup ExampleDocs \cup UncaughtDocs

\* --------------------------------------------------------------------- state
Calls == {"a", "b"}

VARIABLES
    doc,                      \* call -> the document the call is given
    budget,                   \* call -> invocations the host still makes
    pc,                       \* call -> position in analyze_pdf
    result,                   \* call -> the result dict
    all_text,                 \* call -> sampler accumulator
    text_length,              \* call -> sampler text_length
    i,                        \* call -> pages consumed by the current loop
    documents,                \* call -> segment list under construction
    current_text_doc_pages,   \* call -> pending run, page numbers
    current_text_doc_covers,  \* call -> pending run, coverage values
    returned,                 \* call -> results handed back to the host
    g_intervals,              \* get_gap harness: interval list
    g_total_length,           \* get_gap harness: axis length
    g_split                   \* get_gap harness: "pending", "split", "no_split"

callVars == <<doc, budget, pc, result, all_text, text_length, i, documents,
              current_text_doc_pages, current_text_doc_covers, returned>>

gapVars == <<g_intervals, g_total_length, g_split>>

vars == <<callVars, gapVars>>

Pages(c) == doc[c].pages

\* line 171-172: the pending run of a call starts empty
StalePendingRun(old) == old

NewPendingRun(old) == <<>>

InitCalls(docOf, budgetOf) ==
    /\ doc = docOf
    /\ budget = budgetOf
    /\ pc = [c \in Calls |-> "idle"]
    /\ result = [c \in Calls |-> InitialResult]
    /\ all_text = [c \in Calls |-> EmptyStr]
    /\ text_length = [c \in Calls |-> 0]
    /\ i = [c \in Calls |-> 0]
    /\ documents = [c \in Calls |-> <<>>]
    /\ current_text_doc_pages = [c \in Calls |-> <<>>]
    /\ current_text_doc_covers = [c \in Calls |-> <<>>]
    /\ returned = [c \in Calls |-> {}]

IdleGap ==
    /\ g_intervals = <<>>
    /\ g_total_length = 0
    /\ g_split = "no_split"

\* one call on one document
Init ==
    /\ \E d \in Docs : InitCalls([c \in Calls |-> d], [c \in Calls |-> IF c = "a" THEN 1 ELSE 0])
    /\ IdleGap

\* ------------------------------------------------------------------- actions
\* line 33-43: the host calls analyze_pdf; a fresh result dict
Invoke(c) ==
    /\ pc[c] = "idle"
    /\ budget[c] > 0
    /\ budget' = [budget EXCEPT ![c] = @ - 1]
    /\ result' = [result EXCEPT ![c] = InitialResult]
    /\ pc' = [pc EXCEPT ![c] = "open"]
    /\ UNCHANGED <<doc, all_text, text_length, i, documents,
                   current_text_doc_pages, current_text_doc_covers, returned>>

\* lines 276-278: an exception e leaves the try block
Fails(c, e) ==
    IF Caught(e)
    THEN /\ result' = [result EXCEPT ![c] = WithError(@, e)]
         /\ pc' = [pc EXCEPT ![c] = "done"]
    ELSE /\ pc' = [pc EXCEPT ![c] = "raised"]
         /\ UNCHANGED result

\* lines 46-52
Open(c) ==
    /\ pc[c] = "open"
    /\ IF ~doc[c].openable
       THEN /\ Fails(c, Exc(doc[c].exc, "open"))
            /\ UNCHANGED <<all_text, i>>
       ELSE /\ result' = [result EXCEPT ![c].pageCount = Len(Pages(c))]
            /\ all_text' = [all_text EXCEPT ![c] = EmptyStr]
            /\ i' = [i EXCEPT ![c] = 0]
            /\ pc' = [pc EXCEPT ![c] = "sample"]
    /\ UNCHANGED <<doc, budget, text_length, documents,
                   current_text_doc_pages, current_text_doc_covers, returned>>

\* sample_pages = pdf.pages[:3]
SampleCount(c) == IF Len(Pages(c)) < SAMPLE_PAGES THEN Len(Pages(c)) ELSE SAMPLE_PAGES

\* what reading a sampled page raises, "none" if nothing
\* the sampler reads images (line 56), then chars (line 59), then the
\* extracted text when the page has no image (line 85)
SampleRaises(page) ==
    IF page.raises \in {"images", "chars"} THEN page.raises
    ELSE IF page.raises = "extract_text" /\ page.images = <<>> THEN "extract_text"
    ELSE "none"

\* lines 54-88: one iteration of the sampler loop
SamplePage(c) ==
    /\ pc[c] = "sample"
    /\ i[c] < SampleCount(c)
    /\ LET page == Pages(c)[i[c] + 1]
       IN  IF SampleRaises(page) # "none"
           THEN /\ Fails(c, Exc(doc[c].exc, SampleRaises(page)))
                /\ UNCHANGED <<all_text, i>>
           ELSE /\ all_text' = [all_text EXCEPT ![c] = AppendSample(@, page)]
                /\ i' = [i EXCEPT ![c] = @ + 1]
                /\ UNCHANGED <<pc, result>>
    /\ UNCHANGED <<doc, budget, text_length, documents,
                   current_text_doc_pages, current_text_doc_covers, returned>>

\* lines 90-106
Quality(c) ==
    /\ pc[c] = "sample"
    /\ i[c] = SampleCount(c)
    /\ text_length' = [text_length EXCEPT ![c] = StripLen(all_text[c])]
    /\ result' = [result EXCEPT ![c].textQuality = TextQuality(StripLen(all_text[c]))[1],
                                ![c].hasTextLayer = TextQuality(StripLen(all_text[c]))[2]]
    /\ pc' = [pc EXCEPT ![c] = "language"]
    /\ UNCHANGED <<doc, budget, all_text, i, documents,
                   current_text_doc_pages, current_text_doc_covers, returned>>

\* lines 108-114, then the locals of the page loop (lines 122, 171-172); what
\* detect raises and line 112 does not catch leaves the try block
Language(c) ==
    /\ pc[c] = "language"
    /\ IF DetectRaises(text_length[c], doc[c].detector) /\ ~Caught(Exc(doc[c].exc, "detect"))
       THEN /\ Fails(c, Exc(doc[c].exc, "detect"))
            /\ UNCHANGED <<documents, current_text_doc_pages, current_text_doc_covers, i>>
       ELSE /\ result' = [result EXCEPT ![c].language =
                              DetectLanguage(@, text_length[c], doc[c].detector)]
            /\ documents' = [documents EXCEPT ![c] = <<>>]
            /\ current_text_doc_pages' = [current_text_doc_pages EXCEPT ![c] = NewPendingRun(@)]
            /\ current_text_doc_covers' = [current_text_doc_covers EXCEPT ![c] = NewPendingRun(@)]
            /\ i' = [i EXCEPT ![c] = 0]
            /\ pc' = [pc EXCEPT ![c] = "loop"]
    /\ UNCHANGED <<doc, budget, all_text, text_length, returned>>

\* a page loop in which no measurement raises
LoopRaisesNever(page) == "none"

\* what measuring a page in the page loop raises, "none" if nothing
\* the loop reads the extracted text (line 180), the mediabox (line 184) and
\* images (line 198); it never reads chars
LoopRaises(page) ==
    IF page.raises \in {"extract_text", "mediabox", "images"} THEN page.raises
    ELSE "none"

\* lines 175-252: one iteration of the page loop
ClassifyPage(c) ==
    /\ pc[c] = "loop"
    /\ i[c] < Len(Pages(c))
    /\ LET page == Pages(c)[i[c] + 1]
           st == PageStep([documents |-> documents[c],
                           pages |-> current_text_doc_pages[c],
                           covers |-> current_text_doc_covers[c]], page, i[c] + 1)
       IN  IF LoopRaises(page) # "none"
           THEN /\ Fails(c, Exc(doc[c].exc, LoopRaises(page)))
                /\ UNCHANGED <<documents, current_text_doc_pages,
                               current_text_doc_covers, i>>
           ELSE /\ documents' = [documents EXCEPT ![c] = st.documents]
                /\ current_text_doc_pages' = [current_text_doc_pages EXCEPT ![c] = st.pages]
                /\ current_text_doc_covers' = [current_text_doc_covers EXCEPT ![c] = st.covers]
                /\ i' = [i EXCEPT ![c] = @ + 1]
                /\ UNCHANGED <<pc, result>>
    /\ UNCHANGED <<doc, budget, all_text, text_length, returned>>

\* the end of the loop without the flush at lines 255-261
FlushSkipped(c) ==
    /\ pc[c] = "loop"
    /\ i[c] = Len(Pages(c))
    /\ pc' = [pc EXCEPT ![c] = "decide"]
    /\ UNCHANGED <<doc, budget, result, all_text, text_length, i, documents,
                   current_text_doc_pages, current_text_doc_covers, returned>>

\* lines 254-261: flush leftover text pages (the run lists are not cleared)
Flush(c) ==
    /\ pc[c] = "loop"
    /\ i[c] = Len(Pages(c))
    /\ documents' = [documents EXCEPT
                        ![c] = @ \o FlushRun(current_text_doc_pages[c],
                                             current_text_doc_covers[c])]
    /\ pc' = [pc EXCEPT ![c] = "decide"]
    /\ UNCHANGED <<doc, budget, result, all_text, text_length, i,
                   current_text_doc_pages, current_text_doc_covers, returned>>

\* lines 263-274
Decide(c) ==
    /\ pc[c] = "decide"
    /\ result' = [result EXCEPT ![c] = Decision(@, documents[c])]
    /\ pc' = [pc EXCEPT ![c] = "done"]
    /\ UNCHANGED <<doc, budget, all_text, text_length, i, documents,
                   current_text_doc_pages, current_text_doc_covers, returned>>

\* line 280: return result
Return(c) ==
    /\ pc[c] = "done"
    /\ returned' = [returned EXCEPT ![c] = @ \cup {result[c]}]
    /\ pc' = [pc EXCEPT ![c] = "idle"]
    /\ UNCHANGED <<doc, budget, result, all_text, text_length, i, documents,
                   current_text_doc_pages, current_text_doc_covers>>

Next ==
    \/ \E c \in Calls : Invoke(c) /\ UNCHANGED gapVars
    \/ \E c \in Calls : Open(c) /\ UNCHANGED gapVars
    \/ \E c \in Calls : SamplePage(c) /\ UNCHANGED gapVars
    \/ \E c \in Calls : Quality(c) /\ UNCHANGED gapVars
    \/ \E c \in Calls : Language(c) /\ UNCHANGED gapVars
    \/ \E c \in Calls : ClassifyPage(c) /\ UNCHANGED gapVars
    \/ \E c \in Calls : Flush(c) /\ UNCHANGED gapVars
    \/ \E c \in Calls : Decide(c) /\ UNCHANGED gapVars
    \/ \E c \in Calls : Return(c) /\ UNCHANGED gapVars

Spec == Init /\ [][Next]_vars

\* ------------------------------------------- two calls, one after the other
\* and interleaved: call a runs twice, call b once, on the same document or on
\* another one
OtherDoc == Doc(TRUE, <<PFull, PDoc>>, "en")

TwoDocs == { d \in Docs : Len(d.pages) <= MaxTwoPages }

InitTwo ==
    /\ \E d \in TwoDocs : \E e \in {d, OtherDoc} :
          InitCalls([c \in Calls |-> IF c = "a" THEN d ELSE e],
                    [c \in Calls |-> IF c = "a" THEN 2 ELSE 1])
    /\ IdleGap

SpecTwo == InitTwo /\ [][Next]_vars

\* ------------------------------------------------- get_gap as a pure function
GapLengths == {400, 1000}

GapPoints == {0, 100, 196, 197, 200, 203, 300, 400, 500, 509, 1000}

GapIntervals == { <<s, e>> : s \in GapPoints, e \in GapPoints } \ { <<s, e>> \in GapPoints \X GapPoints : s >= e }

InitGap ==
    /\ InitCalls([c \in Calls |-> Unopenable], [c \in Calls |-> 0])
    /\ g_intervals \in SeqsUpTo(GapIntervals, MaxIntervals)
    /\ g_total_length \in GapLengths
    /\ g_split = "pending"

CallGetGap ==
    /\ g_split = "pending"
    /\ g_split' = IF get_gap(g_intervals, g_total_length) THEN "split" ELSE "no_split"
    /\ UNCHANGED <<g_intervals, g_total_length>>

NextGap == CallGetGap /\ UNCHANGED callVars

SpecGap == InitGap /\ [][NextGap]_vars

\* =================================================================== claims
Segments(r) == r.documents[1]

IsHalf(seg) == seg.type \in {"top_half", "bottom_half", "left_half", "right_half"}

RECURSIVE SumPageCounts(_)
SumPageCounts(segs) ==
    IF segs = <<>> THEN 0 ELSE Len(Head(segs).pages) + SumPageCounts(Tail(segs))

\* how many (segment, position) pairs of segs hold page number n
Occurrences(n, segs) ==
    Cardinality({ <<k, j>> \in (1..Len(segs)) \X (1..MaxPages + 1) :
                    j <= Len(segs[k].pages) /\ segs[k].pages[j] = n })

DroppedPages(d) == { n \in 1..Len(d.pages) : IsDropped(d.pages[n]) }

\* the pages of d with a failing read that a call performs: the text, the
\* images or the boxes of any page, the chars of a sampled page
FailingPages(d) ==
    { n \in 1..Len(d.pages) :
        \/ d.pages[n].raises \in {"extract_text", "images", "mediabox"}
        \/ d.pages[n].raises = "chars" /\ n <= SAMPLE_PAGES }

HasFault(d) == ~d.openable \/ FailingPages(d) # {}

\* the segments of a call, built or returned
AllSegments(c) ==
    { documents[c][k] : k \in 1..Len(documents[c]) }

\* C1: every segment of type `document` holds strictly consecutive page
\* numbers; no document run spans a dropped or a non-document page.
C1_DocumentRunsConsecutive ==
    \A c \in Calls : \A seg \in AllSegments(c) :
        seg.type = "document" =>
            \A j \in 1..(Len(seg.pages) - 1) : seg.pages[j + 1] = seg.pages[j] + 1

\* C2 (as stated): in a result returned without error the segment page counts
\* plus the number of dropped pages add up to pageCount, and every surviving
\* page appears in exactly one segment.
C2_PagesPartitioned ==
    \A c \in Calls : \A r \in returned[c] :
        ~HasError(r) =>
            /\ SumPageCounts(Segments(r)) + Cardinality(DroppedPages(doc[c])) = r.pageCount
            /\ \A n \in 1..r.pageCount :
                  Occurrences(n, Segments(r)) = IF n \in DroppedPages(doc[c]) THEN 0 ELSE 1

\* C2 (amended): a dropped page appears in no segment, a split page in exactly
\* its two half segments, every other surviving page in exactly one segment;
\* the segment page counts plus the dropped pages add up to pageCount plus the
\* number of split pages.
C2_PagesPartitionedUpToSplits ==
    \A c \in Calls : \A r \in returned[c] :
        ~HasError(r) =>
            LET segs == Segments(r)
                halves(n) == { k \in 1..Len(segs) : IsHalf(segs[k]) /\ segs[k].pages = <<n>> }
                splits == { n \in 1..r.pageCount : halves(n) # {} }
            IN  /\ SumPageCounts(segs) + Cardinality(DroppedPages(doc[c]))
                      = r.pageCount + Cardinality(splits)
                /\ \A n \in 1..r.pageCount :
                      Occurrences(n, segs) =
                          IF n \in DroppedPages(doc[c]) THEN 0
                          ELSE IF n \in splits THEN 2 ELSE 1
                /\ \A n \in splits : Cardinality(halves(n)) = 2

C2_Witness ==
    \E c \in Calls : \E r \in returned[c] :
        /\ ~HasError(r)
        /\ DroppedPages(doc[c]) # {}
        /\ \E k \in 1..Len(Segments(r)) : Segments(r)[k].type = "bottom_half"
        /\ \E k \in 1..Len(Segments(r)) : Segments(r)[k].type = "document"

\* C3: in every result returned without error documentCount equals the number
\* of entries of `documents`, the empty list included.
C3_CountIsLength ==
    \A c \in Calls : \A r \in returned[c] :
        ~HasError(r) => r.documentCount = Len(Segments(r))

\* C4: in every result (successful, failed or with an empty segment list)
\* isMultiDocument is true exactly when documentCount > 1.
C4_MultiIffCountAboveOne ==
    \A c \in Calls :
        /\ result[c].isMultiDocument <=> result[c].documentCount > 1
        /\ \A r \in returned[c] : r.isMultiDocument <=> r.documentCount > 1

C4_Witness ==
    \E c \in Calls :
        /\ \E r \in returned[c] : r.isMultiDocument /\ r.documentCount = 3
        /\ pc[c] = "idle"

\* the sampler has classified text_length and nothing has failed since
Sampled(c) == pc[c] \in {"language", "loop", "decide"}

\* C5: for text_length <= 200, textQuality is `poor` exactly when
\* 20 <= text_length <= 200 and `none` exactly when text_length < 20;
\* text_length 2000 yields `good`.
C5_PoorAndNoneTiers ==
    \A c \in Calls :
        Sampled(c) =>
            /\ text_length[c] <= GOOD_TEXT_LEN =>
                  /\ result[c].textQuality = "poor" <=> text_length[c] >= DROP_TEXT_LEN
                  /\ result[c].textQuality = "none" <=> text_length[c] < DROP_TEXT_LEN
            /\ text_length[c] = BEST_TEXT_LEN => result[c].textQuality = "good"

\* C6: hasTextLayer is true exactly when text_length > 200; then textQuality
\* is `best` above 2000 and `good` up to 2000; without a text layer
\* textQuality is neither `best` nor `good`.
C6_TextLayerTiers ==
    \A c \in Calls :
        /\ Sampled(c) =>
              /\ result[c].hasTextLayer <=> text_length[c] > GOOD_TEXT_LEN
              /\ result[c].hasTextLayer =>
                    result[c].textQuality =
                        IF text_length[c] > BEST_TEXT_LEN THEN "best" ELSE "good"
        /\ ~result[c].hasTextLayer => result[c].textQuality \notin {"best", "good"}

C6_Witness ==
    \E c \in Calls :
        /\ Sampled(c)
        /\ text_length[c] = BEST_TEXT_LEN
        /\ result[c].textQuality = "good"
        /\ result[c].hasTextLayer

\* a failure of opening the document or of reading a page: an error raised by
\* the backend.  Errors are the classes under Exception; KeyboardInterrupt,
\* SystemExit and GeneratorExit are requests to interrupt or leave, which a
\* call passes on to its caller.
Failure(d) == d.exc = "Exception" /\ HasFault(d)

\* C7: no failure leaves analyze_pdf: whenever opening the document, reading
\* the text, characters, images or boxes of a page, or detecting the language
\* fails, the call still returns; the returned result carries `error`, the
\* description of the failure, exactly when opening or reading failed.  A
\* call is left without a result only by an interrupt or exit request.
C7_FailuresNeverLeave ==
    \A c \in Calls :
        /\ doc[c].exc = "Exception" => pc[c] # "raised"
        /\ pc[c] = "raised" =>
              /\ HasFault(doc[c]) \/ DetectRaises(text_length[c], doc[c].detector)
              /\ ~HasError(result[c])
        /\ pc[c] = "done" => (HasError(result[c]) <=> Failure(doc[c]))
        /\ \A r \in returned[c] :
              /\ HasError(r) <=> Failure(doc[c])
              /\ HasError(r) =>
                    r.error \in {"open", "extract_text", "chars", "images", "mediabox"}

C7_Witness ==
    \E c \in Calls : \E r \in returned[c] :
        /\ HasError(r)
        /\ r.error = "mediabox"
        /\ i[c] >= 1

\* C8: `documents` is either the segment list of the completed page loop, or
\* null together with `error`, isMultiDocument = false and documentCount = 1;
\* segments built before a failing page are never exposed.
C8_AllOrNothing ==
    \A c \in Calls :
        /\ HasError(result[c]) =>
              /\ result[c].documents = None
              /\ ~result[c].isMultiDocument
              /\ result[c].documentCount = 1
        /\ result[c].documents # None =>
              /\ ~HasError(result[c])
              /\ i[c] = Len(Pages(c))
              /\ result[c].documents = Some(documents[c])
        /\ \A r \in returned[c] : HasError(r) <=> r.documents = None

C8_Witness ==
    \E c \in Calls :
        /\ pc[c] = "done"
        /\ HasError(result[c])
        /\ documents[c] # <<>>
        /\ i[c] < Len(Pages(c))

\* C9: all invocations on the same document, run one after the other or
\* interleaved with other calls, return the same result.
C9_SameInputSameResult ==
    \A c1 \in Calls : \A c2 \in Calls :
        doc[c1] = doc[c2] => Cardinality(returned[c1] \cup returned[c2]) <= 1

C9_Witness ==
    /\ \A c \in Calls : pc[c] = "idle" /\ budget[c] = 0
    /\ doc["a"] = doc["b"]
    /\ \E r \in returned["a"] :
          /\ ~HasError(r)
          /\ \E k \in 1..Len(Segments(r)) : Segments(r)[k].type = "document"

\* C10: get_gap reports no split for the empty list and for every list that
\* holds an interval spanning the midpoint (start < mid < end).
C10_SpanningIntervalNoSplit ==
    (/\ g_split # "pending"
     /\ \/ g_intervals = <<>>
        \/ \E k \in 1..Len(g_intervals) :
              /\ 2 * g_intervals[k][1] < g_total_length
              /\ 2 * g_intervals[k][2] > g_total_length)
    => g_split = "no_split"

C10_Witness ==
    /\ g_split = "no_split"
    /\ Len(g_intervals) = 2
    /\ \E k \in 1..2 :
          /\ 2 * g_intervals[k][1] < g_total_length
          /\ 2 * g_intervals[k][2] > g_total_length
    /\ \E k \in 1..2 : 2 * g_intervals[k][1] >= g_total_length

\* g_intervals is a pair with interval k entirely at or before the midpoint
\* and the other one entirely at or after it
PairAroundMid(k) ==
    /\ Len(g_intervals) = 2
    /\ k \in 1..2
    /\ 2 * g_intervals[k][2] <= g_total_length
    /\ 2 * g_intervals[3 - k][1] >= g_total_length

PairGap(k) == g_intervals[3 - k][1] - g_intervals[k][2]

\* C11 (as stated): for two intervals, one on each side of the midpoint,
\* get_gap reports a split exactly when their gap is >= 1% of the total length.
C11_SplitIffGapOnePercent ==
    \A k \in 1..2 :
        (g_split # "pending" /\ PairAroundMid(k)) =>
            (g_split = "split" <=> MIN_GAP_RATIO_INV * PairGap(k) >= g_total_length)

\* C11 (amended): the split is reported exactly when the gap is >= 1% of the
\* total length and also wider than the 5-point merge tolerance.
C11_SplitIffGapOnePercentAndUnmerged ==
    \A k \in 1..2 :
        (g_split # "pending" /\ PairAroundMid(k)) =>
            (g_split = "split" <=>
                (/\ MIN_GAP_RATIO_INV * PairGap(k) >= g_total_length
                 /\ PairGap(k) > GAP_TOLERANCE))

C11_Witness ==
    /\ g_split = "split"
    /\ \E k \in 1..2 : PairAroundMid(k) /\ PairGap(k) = 7

\* the drop condition as the spec words it
SparsePage(page) == PLen(page) < 20 /\ ImageCoverPerc(page) < 2500

\* the segments of segs that hold page number n
SegmentsOf(n, segs) ==
    { k \in 1..Len(segs) : \E j \in 1..Len(segs[k].pages) : segs[k].pages[j] = n }

\* C12: a page contributes to no segment exactly when p_len < 20 and
\* imageCoverPercent < 25.0; a page with p_len < 20 and coverage >= 25.0 is
\* kept as a `full_page` segment or a pair of half segments.
C12_DroppedIffSparse ==
    \A c \in Calls : \A r \in returned[c] :
        ~HasError(r) =>
            \A n \in 1..Len(Pages(c)) :
                LET page == Pages(c)[n]
                    segs == Segments(r)
                IN  /\ SegmentsOf(n, segs) = {} <=> SparsePage(page)
                    /\ (PLen(page) < 20 /\ ImageCoverPerc(page) >= 2500) =>
                          \A k \in SegmentsOf(n, segs) :
                              /\ segs[k].pages = <<n>>
                              /\ segs[k].type = "full_page" \/ IsHalf(segs[k])

C12_Witness ==
    \E c \in Calls : \E r \in returned[c] :
        /\ ~HasError(r)
        /\ \E n \in 1..Len(Pages(c)) :
              /\ PLen(Pages(c)[n]) = 10
              /\ ImageCoverPerc(Pages(c)[n]) = 3000
              /\ SegmentsOf(n, Segments(r)) # {}

\* pages 1-2 text pages with p_len = 3000, pages 3-4 two side-by-side images
SideBySideDoc == Doc(TRUE, <<PDoc3000, PDoc3000, PLeftRight, PLeftRight>>, "en")

\* the <<pages, type>> pairs of a segment list, in order
Shape(segs) == [k \in 1..Len(segs) |-> <<segs[k].pages, segs[k].type>>]

SideBySideShape ==
    << <<<<1, 2>>, "document">>,
       <<<<3>>, "left_half">>, <<<<3>>, "right_half">>,
       <<<<4>>, "left_half">>, <<<<4>>, "right_half">> >>

\* C13 (as stated): the 4-page document yields the run [1,2] and the halves
\* of pages 3 and 4, with documentCount = 3 and isMultiDocument = true.
C13_SideBySideCountThree ==
    \A c \in Calls : \A r \in returned[c] :
        doc[c] = SideBySideDoc =>
            /\ ~HasError(r)
            /\ Shape(Segments(r)) = SideBySideShape
            /\ r.documentCount = 3
            /\ r.isMultiDocument

\* C13 (amended): the same five segments, with documentCount = 5 and
\* isMultiDocument = true.
C13_SideBySideCountFive ==
    \A c \in Calls : \A r \in returned[c] :
        doc[c] = SideBySideDoc =>
            /\ ~HasError(r)
            /\ Shape(Segments(r)) = SideBySideShape
            /\ r.documentCount = 5
            /\ r.isMultiDocument

C13_Witness ==
    \E c \in Calls :
        /\ doc[c] = SideBySideDoc
        /\ returned[c] # {}
        /\ PLen(Pages(c)[1]) = 3000
        /\ get_gap(XIntervals(Pages(c)[3]), 400)

\* the document-run condition as the spec words it
TextDominant(page) ==
    PLen(page) > 2000 \/ (PLen(page) > 200 /\ ImageCoverPerc(page) < 2500)

\* a readable document of n >= 1 pages, all of them document-type
OnlyDocumentPages(d) ==
    /\ d.openable
    /\ Len(d.pages) >= 1
    /\ \A n \in 1..Len(d.pages) : TextDominant(d.pages[n]) /\ d.pages[n].raises = "none"

\* C14: a document made only of n >= 1 document-type pages yields exactly one
\* `document` segment with pages 1..n and the mean coverage of its pages
\* (to two decimals), documentCount = 1 and isMultiDocument = false; nothing
\* is emitted while the page loop runs.
C14_SingleRunFlushedAtEnd ==
    \A c \in Calls :
        OnlyDocumentPages(doc[c]) =>
            LET n == Len(Pages(c))
                total == SumSeq([k \in 1..n |-> ImageCoverPerc(Pages(c)[k])])
            IN  /\ pc[c] = "loop" => documents[c] = <<>>
                /\ \A r \in returned[c] :
                      /\ ~HasError(r)
                      /\ Len(Segments(r)) = 1
                      /\ Segments(r)[1].type = "document"
                      /\ Segments(r)[1].pages = [k \in 1..n |-> k]
                      /\ 2 * (n * Segments(r)[1].image_cover - total) <= n
                      /\ 2 * (total - n * Segments(r)[1].image_cover) <= n
                      /\ r.documentCount = 1
                      /\ ~r.isMultiDocument

C14_Witness ==
    \E c \in Calls : \E r \in returned[c] :
        /\ OnlyDocumentPages(doc[c])
        /\ Segments(r)[1].pages = <<1, 2, 3>>
        /\ Segments(r)[1].image_cover = 333

\* C15: every image_cover value, per page or averaged over a run, lies in
\* [0, 100], whatever image boxes the backend supplies.
C15_CoverWithinZeroAndHundred ==
    \A c \in Calls :
        /\ \A seg \in AllSegments(c) : seg.image_cover >= 0 /\ seg.image_cover <= 10000
        /\ \A k \in 1..Len(current_text_doc_covers[c]) :
              /\ current_text_doc_covers[c][k] >= 0
              /\ current_text_doc_covers[c][k] <= 10000

\* the detector of call c exists and answers
DetectorAnswers(c) == doc[c].detector \notin {"None", "raises"}

\* C16: the detector's answer is used only when text_length > 50; when it is
\* not invoked, is unavailable or fails (raises an error, as the detector's
\* interface defines failure), language is "unknown", and a failing detector
\* neither sets `error` nor stops the segmentation.
C16_LanguageOnlyAboveFifty ==
    \A c \in Calls :
        /\ result[c].language # "unknown" => (text_length[c] > 50 /\ DetectorAnswers(c))
        /\ pc[c] \in {"loop", "decide"} =>
              result[c].language =
                  IF text_length[c] > 50 /\ DetectorAnswers(c)
                  THEN doc[c].detector ELSE "unknown"
        /\ \A r \in returned[c] :
              ~HasFault(doc[c]) =>
                  /\ ~HasError(r)
                  /\ r.documents # None
                  /\ r.language # "unknown" => DetectorAnswers(c)
        /\ (pc[c] = "raised" /\ ~HasFault(doc[c])) => doc[c].exc = "BaseException"

C16_Witness ==
    \E c \in Calls : \E r \in returned[c] :
        /\ doc[c].detector = "raises"
        /\ text_length[c] > 50
        /\ ~HasError(r)
        /\ r.language = "unknown"
        /\ Len(Segments(r)) >= 2

\* C17: a non-dropped page joins the pending run, with nothing emitted at
\* that point, exactly when p_len > 2000 or (p_len > 200 and coverage < 25.0);
\* every other non-dropped page is in no document run and yields a
\* `full_page` or half-page segment of its own.
C17_DocumentIffTextDominant ==
    \A c \in Calls :
        /\ (pc[c] = "loop" /\ i[c] >= 1 /\ ~SparsePage(Pages(c)[i[c]])) =>
              LET run == current_text_doc_pages[c]
                  appended == run # <<>> /\ run[Len(run)] = i[c]
              IN  /\ appended <=> TextDominant(Pages(c)[i[c]])
                  /\ appended <=> SegmentsOf(i[c], documents[c]) = {}
        /\ \A r \in returned[c] :
              ~HasError(r) =>
                  \A n \in 1..Len(Pages(c)) :
                      LET segs == Segments(r)
                          inRun == \E k \in SegmentsOf(n, segs) : segs[k].type = "document"
                      IN  ~SparsePage(Pages(c)[n]) =>
                              /\ SegmentsOf(n, segs) # {}
                              /\ inRun <=> TextDominant(Pages(c)[n])
                              /\ ~inRun => \A k \in SegmentsOf(n, segs) :
                                                /\ segs[k].pages = <<n>>
                                                /\ segs[k].type = "full_page" \/ IsHalf(segs[k])

C17_Witness ==
    \E c \in Calls : \E r \in returned[c] :
        /\ ~HasError(r)
        /\ Len(Pages(c)) = 1
        /\ PLen(Pages(c)[1]) = 2000
        /\ ImageCoverPerc(Pages(c)[1]) = 5000
        /\ Segments(r)[1].type = "full_page"

\* number of images inside the effective box with width and height >= 20
RelevantCount(page) ==
    Cardinality({ k \in 1..Len(page.images) :
                    /\ is_within_bounds(page.images[k], get_effective_bbox(page))
                    /\ page.images[k][3] - page.images[k][1] >= 20
                    /\ page.images[k][4] - page.images[k][2] >= 20 })

VerticalSplit(page) ==
    get_gap(YIntervals(page), get_effective_bbox(page)[4] - get_effective_bbox(page)[2])

HorizontalSplit(page) ==
    get_gap(XIntervals(page), get_effective_bbox(page)[3] - get_effective_bbox(page)[1])

ExpectedTypes(page) ==
    IF RelevantCount(page) < 2 THEN <<"full_page">>
    ELSE IF VerticalSplit(page) THEN <<"top_half", "bottom_half">>
    ELSE IF HorizontalSplit(page) THEN <<"left_half", "right_half">>
    ELSE <<"full_page">>

\* C18: a page that is neither dropped nor document-type is `full_page` with
\* fewer than 2 relevant images; otherwise top/bottom when the vertical test
\* reports a split (even if the horizontal one would too), left/right only
\* when the vertical test fails and the horizontal succeeds, else `full_page`.
C18_VerticalBeforeHorizontal ==
    \A c \in Calls : \A r \in returned[c] :
        ~HasError(r) =>
            \A n \in 1..Len(Pages(c)) :
                LET page == Pages(c)[n]
                    segs == Segments(r)
                    exp == ExpectedTypes(page)
                IN  (~SparsePage(page) /\ ~TextDominant(page)) =>
                        \E k \in 1..Len(segs) :
                            /\ SegmentsOf(n, segs) = k..(k + Len(exp) - 1)
                            /\ \A j \in 1..Len(exp) :
                                  /\ segs[k + j - 1].type = exp[j]
                                  /\ segs[k + j - 1].pages = <<n>>

C18_Witness ==
    \E c \in Calls : \E r \in returned[c] :
        /\ ~HasError(r)
        /\ Len(Pages(c)) = 1
        /\ VerticalSplit(Pages(c)[1])
        /\ HorizontalSplit(Pages(c)[1])
        /\ Shape(Segments(r)) = << <<<<1>>, "top_half">>, <<<<1>>, "bottom_half">> >>

\* the relevant images of page leave the centre of the effective box free
\* along axis lo/hi (bbox indices), with images on both sides of it
GapHoldsCentre(page, lo, hi) ==
    LET eff == get_effective_bbox(page)
        rel == RelevantImages(page)
        twiceCentre == eff[lo] + eff[hi]
    IN  /\ \A k \in 1..Len(rel) :
              ~(2 * rel[k][lo] < twiceCentre /\ 2 * rel[k][hi] > twiceCentre)
        /\ \E k \in 1..Len(rel) : 2 * rel[k][hi] <= twiceCentre
        /\ \E k \in 1..Len(rel) : 2 * rel[k][lo] >= twiceCentre

\* C19: a top/bottom or left/right split is emitted only when the gap between
\* the two image groups contains the centre of the effective box on that axis;
\* an image crossing that centreline prevents the split.
C19_SplitOnlyAroundBoxCentre ==
    \A c \in Calls : \A seg \in AllSegments(c) :
        /\ seg.type \in {"top_half", "bottom_half"} =>
              GapHoldsCentre(Pages(c)[seg.pages[1]], 2, 4)
        /\ seg.type \in {"left_half", "right_half"} =>
              GapHoldsCentre(Pages(c)[seg.pages[1]], 1, 3)

\* C20 (as stated): a page whose measurement raises is treated as dropped: it
\* contributes no segment, no `error` is set, and the other pages are still
\* assembled into `documents`.
C20_FailingPageDropped ==
    \A c \in Calls : \A r \in returned[c] :
        doc[c].openable =>
            /\ ~HasError(r)
            /\ r.documents # None
            /\ \A n \in FailingPages(doc[c]) : SegmentsOf(n, Segments(r)) = {}

\* C20 (amended): a page whose measurement raises fails the whole call:
\* `error` is that failure, `documents` is null, and the pages after it are
\* not classified.
C20_FailingPageFailsCall ==
    \A c \in Calls :
        /\ (pc[c] = "done" /\ HasError(result[c]) /\ doc[c].openable) =>
              /\ i[c] < Len(Pages(c))
              /\ i[c] + 1 \in FailingPages(doc[c])
              /\ result[c].error = Pages(c)[i[c] + 1].raises
              /\ result[c].documents = None
        /\ \A r \in returned[c] :
              (doc[c].openable /\ FailingPages(doc[c]) # {}) =>
                  HasError(r) /\ r.documents = None

C20_Witness ==
    \E c \in Calls : \E r \in returned[c] :
        /\ HasError(r)
        /\ i[c] >= 1
        /\ i[c] + 1 < Len(Pages(c))
        /\ ~SparsePage(Pages(c)[i[c] + 2])
        /\ Pages(c)[i[c] + 2].raises = "none"

\* ----------------------------------------------------------------- C21
MinPage(seg) == CHOOSE n \in { seg.pages[j] : j \in 1..Len(seg.pages) } :
                    \A j \in 1..Len(seg.pages) : n <= seg.pages[j]

MaxPage(seg) == CHOOSE n \in { seg.pages[j] : j \in 1..Len(seg.pages) } :
                    \A j \in 1..Len(seg.pages) : n >= seg.pages[j]

\* segs[k] and segs[k + 1] are the two halves of one split page
HalfPair(segs, k) ==
    /\ segs[k].pages = segs[k + 1].pages
    /\ Len(segs[k].pages) = 1
    /\ <<segs[k].type, segs[k + 1].type>>
           \in {<<"top_half", "bottom_half">>, <<"left_half", "right_half">>}

\* the segment list is in page order, ties only inside a pair of halves
InPageOrder(segs) ==
    \A k \in 1..(Len(segs) - 1) :
        /\ MaxPage(segs[k]) <= MinPage(segs[k + 1])
        /\ MaxPage(segs[k]) = MinPage(segs[k + 1]) => HalfPair(segs, k)

\* the loop of call c is about to classify a non-document, non-dropped page
\* while a run is pending
NonDocumentArrives(c) ==
    /\ pc[c] = "loop"
    /\ i[c] < Len(Pages(c))
    /\ current_text_doc_pages[c] # <<>>
    /\ LoopRaises(Pages(c)[i[c] + 1]) = "none"
    /\ ~IsDropped(Pages(c)[i[c] + 1])
    /\ ~IsDocumentPage(Pages(c)[i[c] + 1])

\* the step of call c appends the pending run as one document segment, then
\* the page's own segment(s), and leaves the run empty
FlushedBeforePage(c) ==
    LET old == documents[c]
        new == documents'[c]
        n == Len(old)
    IN  /\ Len(new) \in {n + 2, n + 3}
        /\ \A k \in 1..n : new[k] = old[k]
        /\ new[n + 1].type = "document"
        /\ new[n + 1].pages = current_text_doc_pages[c]
        /\ \A k \in (n + 2)..Len(new) :
              new[k].pages = <<i[c] + 1>> /\ new[k].type # "document"
        /\ current_text_doc_pages'[c] = <<>>
        /\ current_text_doc_covers'[c] = <<>>

\* C21: a non-document page that arrives with a pending run has the run
\* flushed as one document segment and cleared before its own segment(s) are
\* appended; the segment list, under construction and returned, is in page
\* order with equal page numbers only between the two halves of one split
\* page; and when a call returns without error its pending run, if any, is
\* the last segment of the result.
C21_AppendedInPageOrder ==
    /\ [](\A c \in Calls :
            /\ InPageOrder(documents[c])
            /\ \A r \in returned[c] : ~HasError(r) => InPageOrder(Segments(r))
            /\ (pc[c] = "done" /\ ~HasError(result[c])
                    /\ current_text_doc_pages[c] # <<>>) =>
                  /\ Segments(result[c]) # <<>>
                  /\ Segments(result[c])[Len(Segments(result[c]))].type = "document"
                  /\ Segments(result[c])[Len(Segments(result[c]))].pages
                         = current_text_doc_pages[c])
    /\ [][\A c \in Calls :
            (NonDocumentArrives(c) /\ i'[c] = i[c] + 1) => FlushedBeforePage(c)]_vars

\* a returned result in which a two-page run was flushed in front of a split
\* page and a later run by the final flush
C21_Witness ==
    \E c \in Calls : \E r \in returned[c] :
        /\ ~HasError(r)
        /\ Len(Segments(r)) = 4
        /\ Segments(r)[1].type = "document" /\ Segments(r)[1].pages = <<1, 2>>
        /\ Segments(r)[2].type = "top_half" /\ Segments(r)[2].pages = <<3>>
        /\ Segments(r)[3].type = "bottom_half" /\ Segments(r)[3].pages = <<3>>
        /\ Segments(r)[4].type = "document" /\ Segments(r)[4].pages = <<4>>
        /\ current_text_doc_pages[c] = <<4>>

\* ----------------------------------------------------------------- C22
RECURSIVE SumStripped(_, _)
\* the stripped character counts of the filtered text of pages 1..n, added up
SumStripped(pages, n) ==
    IF n = 0 THEN 0
    ELSE SumStripped(pages, n - 1) + StripLen(FilteredText(pages[n]))

\* C22: the sampler's text_length equals the sum, over the first
\* min(3, pageCount) pages, of the stripped character count of each page's
\* filtered text, the separator between sampled pages adding nothing; so
\* textQuality, hasTextLayer and language are those of that sum, whatever
\* the pages after the third hold.
C22_TextLengthIsSumOfSampledPages ==
    \A c \in Calls :
        Sampled(c) =>
            LET sum == SumStripped(Pages(c), SampleCount(c))
            IN  /\ text_length[c] = sum
                /\ <<result[c].textQuality, result[c].hasTextLayer>> = TextQuality(sum)
                /\ pc[c] # "language" =>
                      result[c].language =
                          DetectLanguage(InitialResult.language, sum, doc[c].detector)

\* ----------------------------------------------------------------- C23
\* the type that follows (or precedes) a half inside its pair
OtherHalf(type) ==
    CASE type = "top_half" -> "bottom_half"
      [] type = "bottom_half" -> "top_half"
      [] type = "left_half" -> "right_half"
      [] type = "right_half" -> "left_half"

\* segs[k] is a half whose partner is its neighbour: the next segment for a
\* top or left half, the previous one for a bottom or right half
HalfHasPartner(segs, k) ==
    LET j == IF segs[k].type \in {"top_half", "left_half"} THEN k + 1 ELSE k - 1
    IN  /\ j \in 1..Len(segs)
        /\ segs[j].type = OtherHalf(segs[k].type)
        /\ Len(segs[k].pages) = 1
        /\ segs[j].pages = segs[k].pages
        /\ segs[j].image_cover = segs[k].image_cover

\* C23: in every result returned without error each non-dropped page number
\* appears in at least one segment and each dropped page number in none, no
\* segment has an empty page list, and every half segment sits in an adjacent
\* pair (top then bottom, left then right) on the same single page with the
\* same image_cover.
C23_SegmentsWellFormed ==
    \A c \in Calls : \A r \in returned[c] :
        ~HasError(r) =>
            LET segs == Segments(r)
            IN  /\ \A n \in 1..r.pageCount :
                      IF n \in DroppedPages(doc[c])
                      THEN Occurrences(n, segs) = 0
                      ELSE Occurrences(n, segs) >= 1
                /\ \A k \in 1..Len(segs) : segs[k].pages # <<>>
                /\ \A k \in 1..Len(segs) : IsHalf(segs[k]) => HalfHasPartner(segs, k)

\* a returned result with a dropped page, a left/right pair, a top/bottom
\* pair and a run flushed after the loop
C23_Witness ==
    \E c \in Calls : \E r \in returned[c] :
        /\ ~HasError(r)
        /\ r.pageCount = 4
        /\ DroppedPages(doc[c]) = {1}
        /\ Len(Segments(r)) = 5
        /\ Segments(r)[1].type = "left_half"
        /\ Segments(r)[2].type = "right_half"
        /\ Segments(r)[3].type = "top_half"
        /\ Segments(r)[4].type = "bottom_half"
        /\ Segments(r)[5].type = "document" /\ Segments(r)[5].pages = <<4>>

====
